---- MODULE Spec2Model ----
(***************************************************************************)
(* Model of the two HAL shims of android_device_samsung_santos10-common:   *)
(*   - the power HAL (src/power/power.c): boost pulse rate limiting and    *)
(*     governor profile application;                                       *)
(*   - the display mode control (src/unnamed/part_000,                     *)
(*     DisplayModeControl.java).                                           *)
(*                                                                         *)
(* Four specifications are defined over one set of variables:              *)
(*   SpecTime     the pure timestamp arithmetic of power.c                 *)
(*   Spec         the power HAL called by one thread (atomic calls)        *)
(*   SpecMT       several threads issuing powerHint(SET_PROFILE)           *)
(*   SpecDisplay  the display mode control over a small file system        *)
(* Each specification leaves the variables of the others at their initial  *)
(* values.                                                                 *)
(*                                                                         *)
(* Text is modelled as a sequence of one-character strings, so that        *)
(* formatting (snprintf "%d", String.valueOf) and parsing (atoi,           *)
(* Integer.parseInt) are computed and not assumed.                         *)
(***************************************************************************)
EXTENDS Integers, Sequences, FiniteSets, TLC

VARIABLES
    \* ---- SpecTime
    ts_a,                   \* curr_time handed to timespec_sub
    ts_b,                   \* last_boost_time handed to timespec_sub
    ts_res,                 \* diff_time, the result of timespec_sub, or NoTime
    ts_us,                  \* diff, the result of timespec_to_us, or NoUs
    \* ---- power HAL, state of the module
    current_power_profile,  \* static int current_power_profile
    pulse_duration,         \* mod->pulse_duration
    last_boost_time,        \* mod->last_boost_time
    \* ---- power HAL, environment
    clock,                  \* the reading CLOCK_MONOTONIC would give now
    governor,               \* TRUE iff INTERACTIVE_PATH is a directory
    nodes,                  \* content of each sysfs node, or Missing
    \* ---- power HAL, observation of the calls made (Spec)
    op,                     \* the last HAL call: name, hint, data, ...
    writes,                 \* the sysfs writes the last call attempted, in order
    indexed,                \* the indices the last call used on profiles[]
    lastPulse,              \* when the boost-pulse node was last written, or NoTime
    callTick,               \* flips at every HAL call
    \* ---- SpecMT
    pc,                     \* per thread: position inside powerHint(SET_PROFILE)
    arg,                    \* per thread: *(int32_t *)data of the call in progress
    left,                   \* per thread: calls still to be issued
    lock,                   \* owner of the pthread mutex, or 0
    lastw,                  \* the last profile write made: thread, index, profile,
                            \* and the threads that have made one
    \* ---- display mode control
    loaded,                 \* TRUE once the static initializer has run
    modeFile,               \* the file at MODE_PATH
    defaultFile,            \* the file at DEFAULT_PATH
    dop,                    \* the last call: name, argument, result
    dwrites                 \* the file writes the last call attempted, in order

tvars == <<ts_a, ts_b, ts_res, ts_us>>
hvars == <<current_power_profile, pulse_duration, last_boost_time>>
evars == <<clock, governor, nodes>>
ovars == <<op, writes, indexed, lastPulse, callTick>>
mvars == <<pc, arg, left, lock, lastw>>
dvars == <<loaded, modeFile, defaultFile, dop, dwrites>>
vars == <<tvars, hvars, evars, ovars, mvars, dvars>>

None == "None"
\* The content of a node or file that does not exist (no text: text is made
\* of one-character strings).
Missing == <<"Missing">>
\* No timestamp, and no microsecond count.
NoTime == [tv_sec |-> -1, tv_nsec |-> -1]
NoUs == -1

-----------------------------------------------------------------------------
(* Bounds of the model.                                                    *)

\* Monotonic clock readings have tv_sec in 0..MaxSec.
MaxSec == 1
\* Threads of SpecMT.
NumThreads == 2
\* powerHint(SET_PROFILE) calls each thread of SpecMT issues.
MaxCalls == 1
\* DisplayMode ids handed to setMode range over -1..MaxModeId.
MaxModeId == 4

-----------------------------------------------------------------------------
(* Program constants.                                                      *)

NSEC_PER_SEC == 1000000000
USEC_PER_SEC == 1000000
NSEC_PER_USEC == 1000
DEFAULT_PULSE_DURATION == 20000
READ_BUF_SIZE == 32

-----------------------------------------------------------------------------
(* Text.                                                                   *)

Digits == <<"0", "1", "2", "3", "4", "5", "6", "7", "8", "9">>

IsDigit(c) == \E d \in 1..10 : Digits[d] = c
DigitVal(c) == (CHOOSE d \in 1..10 : Digits[d] = c) - 1

RECURSIVE NatStr(_)
NatStr(n) == IF n < 10 THEN <<Digits[n + 1]>>
             ELSE NatStr(n \div 10) \o <<Digits[(n % 10) + 1]>>

\* snprintf(buf, 80, "%d", value) and String.valueOf(int).
IntStr(n) == IF n < 0 THEN <<"-">> \o NatStr(-n) ELSE NatStr(n)

IsSpace(c) == c \in {" ", "\n", "\t", "\r"}

\* The digits at the front of s, as a number (0 when there are none).
RECURSIVE DigitRun(_, _)
DigitRun(s, acc) ==
    IF s = <<>> \/ ~IsDigit(Head(s)) THEN acc
    ELSE DigitRun(Tail(s), acc * 10 + DigitVal(Head(s)))

RECURSIVE SkipSpace(_)
SkipSpace(s) == IF s # <<>> /\ IsSpace(Head(s)) THEN SkipSpace(Tail(s)) ELSE s

\* atoi(3): leading white space, an optional sign, then digits up to the
\* first character that is not one.
atoi(s) ==
    LET t == SkipSpace(s)
    IN  IF t = <<>> THEN 0
        ELSE IF Head(t) = "-" THEN -DigitRun(Tail(t), 0)
        ELSE IF Head(t) = "+" THEN DigitRun(Tail(t), 0)
        ELSE DigitRun(t, 0)

-----------------------------------------------------------------------------
(* Timestamps (struct timespec) and their arithmetic.                      *)

Timespec(s, n) == [tv_sec |-> s, tv_nsec |-> n]

\* C integer division truncates toward zero (\div rounds down).
CDiv(x, d) == IF x >= 0 THEN x \div d ELSE -((-x) \div d)

\* timespec_sub(&res, &a, &b): the borrow is taken only when a.tv_sec is
\* below b.tv_sec; with a.tv_sec >= b.tv_sec the nanoseconds are subtracted
\* as they are and may come out negative.
timespec_sub(a, b) ==
    IF a.tv_sec >= b.tv_sec
    THEN Timespec(a.tv_sec - b.tv_sec, a.tv_nsec - b.tv_nsec)
    ELSE Timespec(a.tv_sec - b.tv_sec - 1,
                  NSEC_PER_SEC - b.tv_nsec + a.tv_nsec)

\* timespec_to_us(&t). The result is converted to uint64_t; it is never
\* negative for the differences of monotonic readings the model forms.
timespec_to_us(t) == t.tv_sec * USEC_PER_SEC + CDiv(t.tv_nsec, NSEC_PER_USEC)

\* The tv_nsec values of the clock readings of the model: two readings one
\* default pulse duration (20 ms) apart, and a reading 200 ns before the
\* second rolls over.
NsecGrid == {0, 20000000, 999999800}

\* The clock readings of the HAL model: the whole grid in second 0, and the
\* readings of the later seconds that follow a rollover.
Times ==
    {Timespec(0, n) : n \in NsecGrid}
        \cup {Timespec(s, n) : s \in 1..MaxSec, n \in {0, 20000000}}

Before(b, a) ==
    b.tv_sec < a.tv_sec \/ (b.tv_sec = a.tv_sec /\ b.tv_nsec <= a.tv_nsec)

-----------------------------------------------------------------------------
(* SpecTime: timespec_sub followed by timespec_to_us, on every pair of     *)
(* clock readings last <= now of the model.                                *)

TimeIdle == ts_a = NoTime /\ ts_b = NoTime /\ ts_res = NoTime /\ ts_us = NoUs

TimeSub ==
    /\ ts_res = NoTime
    /\ ts_res' = timespec_sub(ts_a, ts_b)
    /\ UNCHANGED <<ts_a, ts_b, ts_us>>
    /\ UNCHANGED <<hvars, evars, ovars, mvars, dvars>>

TimeToUs ==
    /\ ts_res # NoTime
    /\ ts_us = NoUs
    /\ ts_us' = timespec_to_us(ts_res)
    /\ UNCHANGED <<ts_a, ts_b, ts_res>>
    /\ UNCHANGED <<hvars, evars, ovars, mvars, dvars>>

-----------------------------------------------------------------------------
(* The profile table of power.h (PROFILE_MAX entries). power.h is not part *)
(* of the sources at hand; the table has the shape power.c uses, one       *)
(* power-save entry whose boostpulse_duration is 0 and two entries with a  *)
(* boost pulse.                                                            *)

PROFILE_MAX == 3

profiles ==
    <<[boost |-> 0, boostpulse_duration |-> 0, go_hispeed_load |-> 90,
       hispeed_freq |-> 800000, io_is_busy |-> 0,
       target_loads |-> <<"9", "5">>,
       scaling_min_freq |-> 800000, scaling_max_freq |-> 1200000],
      [boost |-> 0, boostpulse_duration |-> 40000, go_hispeed_load |-> 80,
       hispeed_freq |-> 1200000, io_is_busy |-> 1,
       target_loads |-> <<"8", "0">>,
       scaling_min_freq |-> 800000, scaling_max_freq |-> 1600000],
      [boost |-> 1, boostpulse_duration |-> 1000000, go_hispeed_load |-> 50,
       hispeed_freq |-> 1600000, io_is_busy |-> 1,
       target_loads |-> <<"7", "0">>,
       scaling_min_freq |-> 1600000, scaling_max_freq |-> 1600000]>>

\* profiles[i] as C reads it: the entry for an index inside the table, and
\* whatever lies in memory for one outside it.
ProfileRead(i) ==
    IF i \in 0..(PROFILE_MAX - 1) THEN {profiles[i + 1]}
    ELSE {profiles[k] : k \in 1..PROFILE_MAX}

-----------------------------------------------------------------------------
(* The sysfs nodes.                                                        *)

BOOST_PULSE_SYSFS == "/sys/devices/system/cpu/cpufreq/interactive/boostpulse"
BOOST_FREQ_SYSFS == "/sys/devices/system/cpu/cpufreq/interactive/hispeed_freq"
BOOST_DURATION_SYSFS ==
    "/sys/devices/system/cpu/cpufreq/interactive/boostpulse_duration"
BOOST_SYSFS == "/sys/devices/system/cpu/cpufreq/interactive/boost"
GO_HISPEED_LOAD_SYSFS ==
    "/sys/devices/system/cpu/cpufreq/interactive/go_hispeed_load"
IO_IS_BUSY_SYSFS == "/sys/devices/system/cpu/cpufreq/interactive/io_is_busy"
TARGET_LOADS_SYSFS ==
    "/sys/devices/system/cpu/cpufreq/interactive/target_loads"
SCALING_MIN_FREQ_SYSFS == "/sys/devices/system/cpu/cpu0/cpufreq/scaling_min_freq"
SCALING_MAX_FREQ_SYSFS == "/sys/devices/system/cpu/cpu0/cpufreq/scaling_max_freq"

\* The nodes under INTERACTIVE_PATH that hold a value; they exist exactly
\* while the interactive governor is the active one.
InteractiveNodes ==
    {BOOST_SYSFS, BOOST_DURATION_SYSFS, GO_HISPEED_LOAD_SYSFS,
     BOOST_FREQ_SYSFS, IO_IS_BUSY_SYSFS, TARGET_LOADS_SYSFS}

\* The nodes under CPUFREQ_PATH; they exist under every governor.
CpufreqNodes == {SCALING_MIN_FREQ_SYSFS, SCALING_MAX_FREQ_SYSFS}

Nodes == InteractiveNodes \cup CpufreqNodes

\* What the kernel shows in a node before anything is written to it: the
\* value and a newline.
KernelDefault(n) ==
    (CASE n = BOOST_SYSFS -> IntStr(0)
       [] n = BOOST_DURATION_SYSFS -> IntStr(80000)
       [] n = GO_HISPEED_LOAD_SYSFS -> IntStr(99)
       [] n = BOOST_FREQ_SYSFS -> IntStr(1600000)
       [] n = IO_IS_BUSY_SYSFS -> IntStr(0)
       [] n = TARGET_LOADS_SYSFS -> <<"9", "0">>
       [] n = SCALING_MIN_FREQ_SYSFS -> IntStr(800000)
       [] n = SCALING_MAX_FREQ_SYSFS -> IntStr(1600000)) \o <<"\n">>

\* The file system with the interactive governor present or absent.
FreshNodes(gov) ==
    [n \in Nodes |->
        IF n \in InteractiveNodes /\ ~gov THEN Missing ELSE KernelDefault(n)]

\* sysfs_write(path, s): open fails on a missing node (-1 is returned and
\* nothing is written); otherwise s becomes the content of the node. The
\* boost-pulse node is a trigger and keeps no content.
sysfs_write(fs, path, s) ==
    IF path \notin Nodes \/ fs[path] = Missing THEN fs
    ELSE [fs EXCEPT ![path] = s]

\* sysfs_write_int(path, value): the value printed with "%d".
sysfs_write_int(fs, path, value) == sysfs_write(fs, path, IntStr(value))

Min(x, y) == IF x <= y THEN x ELSE y

\* sysfs_read(path, s, num_bytes): count is -1 when the node cannot be
\* opened; otherwise at most num_bytes - 1 bytes are read and one trailing
\* newline is cut.
sysfs_read(fs, path, num_bytes) ==
    IF fs[path] = Missing THEN [count |-> -1, s |-> <<>>]
    ELSE LET count == Min(Len(fs[path]), num_bytes - 1)
             raw == SubSeq(fs[path], 1, count)
         IN  [count |-> count,
              s |-> IF count >= 1 /\ raw[count] = "\n"
                    THEN SubSeq(raw, 1, count - 1) ELSE raw]

\* The eight writes of set_power_profile, in the order it makes them.
ProfileWrites(prof) ==
    <<[path |-> BOOST_SYSFS, s |-> IntStr(prof.boost)],
      [path |-> BOOST_DURATION_SYSFS, s |-> IntStr(prof.boostpulse_duration)],
      [path |-> GO_HISPEED_LOAD_SYSFS, s |-> IntStr(prof.go_hispeed_load)],
      [path |-> BOOST_FREQ_SYSFS, s |-> IntStr(prof.hispeed_freq)],
      [path |-> IO_IS_BUSY_SYSFS, s |-> IntStr(prof.io_is_busy)],
      [path |-> TARGET_LOADS_SYSFS, s |-> prof.target_loads],
      [path |-> SCALING_MIN_FREQ_SYSFS, s |-> IntStr(prof.scaling_min_freq)],
      [path |-> SCALING_MAX_FREQ_SYSFS, s |-> IntStr(prof.scaling_max_freq)]>>

RECURSIVE ApplyWrites(_, _)
ApplyWrites(fs, ws) ==
    IF ws = <<>> THEN fs
    ELSE ApplyWrites(sysfs_write(fs, Head(ws).path, Head(ws).s), Tail(ws))

-----------------------------------------------------------------------------
(* The power HAL called by one thread: every call is one step.             *)

\* The hints the switch names, and VSYNC for those it does not.
Hints == {"INTERACTION", "CPU_BOOST", "LAUNCH_BOOST", "SET_PROFILE", "VSYNC"}
BoostHints == {"INTERACTION", "CPU_BOOST", "LAUNCH_BOOST"}

\* The values *(int32_t *)data takes with SET_PROFILE: every valid id and
\* one id on either side of the table.
ProfileArgs == (-1)..PROFILE_MAX

Features == {"SUPPORTED_PROFILES", "DOUBLE_TAP_TO_WAKE"}

\* The record of a call: its entry point, hint (or feature) and data, whether
\* the governor directory existed when it was made (kept for the hints that
\* test it), and, for a hint, whether the call before it was the same hint
\* with the same data.
Call(name, hint, data, gov) ==
    [name |-> name, hint |-> hint, data |-> data, gov |-> gov,
     again |-> /\ name = "powerHint"
               /\ op.name = name /\ op.hint = hint /\ op.data = data]

PulseWrite == [path |-> BOOST_PULSE_SYSFS, s |-> <<"1">>]

\* Mutant: the lower bound of the range test is left out.
is_profile_valid_upper_only(profile) == profile < PROFILE_MAX

is_profile_valid(profile) == profile >= 0 /\ profile < PROFILE_MAX

\* Mutant: the governor is taken to be present without looking.
check_governor_unchecked == TRUE

\* check_governor(): stat(INTERACTIVE_PATH) succeeds and names a directory.
check_governor == governor

\* Mutant: no short-circuit on the profile already selected.
profile_is_current_never(profile) == FALSE

\* The test of line 176, profile == current_power_profile.
profile_is_current(profile) == profile = current_power_profile

\* Mutant: the pulse is written whatever time has passed.
pulse_due_always(diff) == diff >= 0

\* The test of line 230, diff > mod->pulse_duration.
pulse_due(diff) == diff > pulse_duration

\* Mutant: no fallback value when the node cannot be read.
init_pulse_duration_no_fallback(r) == atoi(r.s)

\* pulse_duration as fugu_power_init sets it from the result r of
\* sysfs_read(BOOST_DURATION_SYSFS, ...): on a failed read the text "20000"
\* is printed in its place, and atoi is applied either way.
init_pulse_duration(r) ==
    atoi(IF r.count < 0 THEN IntStr(DEFAULT_PULSE_DURATION) ELSE r.s)

\* static void set_power_profile(int profile), on the caller's side of the
\* mutex.
set_power_profile(profile) ==
    IF ~is_profile_valid(profile) \/ profile_is_current(profile)
       \/ ~check_governor
    THEN /\ writes' = <<>>
         /\ indexed' = {}
         /\ UNCHANGED <<current_power_profile, nodes>>
    ELSE \E prof \in ProfileRead(profile) :
            /\ writes' = ProfileWrites(prof)
            /\ nodes' = ApplyWrites(nodes, ProfileWrites(prof))
            /\ indexed' = {profile}
            /\ current_power_profile' = profile

\* The INTERACTION / CPU_BOOST / LAUNCH_BOOST case of fugu_power_hint.
boost_hint ==
    IF ~is_profile_valid(current_power_profile)
    THEN /\ writes' = <<>>
         /\ indexed' = {}
         /\ UNCHANGED <<last_boost_time, lastPulse>>
    ELSE \E prof \in ProfileRead(current_power_profile) :
            /\ indexed' = {current_power_profile}
            /\ IF prof.boostpulse_duration # 0 /\ check_governor
                  /\ pulse_due(timespec_to_us(
                                   timespec_sub(clock, last_boost_time)))
               THEN /\ writes' = <<PulseWrite>>
                    /\ last_boost_time' = clock
                    /\ lastPulse' = clock
               ELSE /\ writes' = <<>>
                    /\ UNCHANGED <<last_boost_time, lastPulse>>

\* static void fugu_power_init(struct power_module *module)
fugu_power_init ==
    /\ pulse_duration' =
           init_pulse_duration(sysfs_read(nodes, BOOST_DURATION_SYSFS,
                                          READ_BUF_SIZE))
    /\ last_boost_time' = clock
    /\ op' = Call("init", None, None, None)
    /\ writes' = <<>>
    /\ indexed' = {}
    /\ callTick' = 1 - callTick
    /\ UNCHANGED <<current_power_profile, evars, lastPulse>>
    /\ UNCHANGED <<tvars, mvars, dvars>>

\* static void fugu_power_set_interactive(struct power_module *module, int on)
fugu_power_set_interactive ==
    \E on \in {0, 1} :
        /\ op' = Call("setInteractive", None, None, None)
        /\ writes' = <<>>
        /\ indexed' = {}
        /\ callTick' = 1 - callTick
        /\ UNCHANGED <<hvars, evars, lastPulse>>
        /\ UNCHANGED <<tvars, mvars, dvars>>

\* static void fugu_power_hint(module, hint, data)
fugu_power_hint ==
    \E hint \in Hints :
    \E data \in IF hint = "SET_PROFILE" THEN ProfileArgs ELSE {None} :
        /\ op' = Call("powerHint", hint, data,
                      IF hint \in BoostHints \cup {"SET_PROFILE"}
                      THEN governor ELSE None)
        /\ callTick' = 1 - callTick
        /\ CASE hint \in BoostHints ->
                    /\ boost_hint
                    /\ UNCHANGED <<current_power_profile, pulse_duration,
                                   evars>>
             [] hint = "SET_PROFILE" ->
                    /\ set_power_profile(data)
                    /\ UNCHANGED <<pulse_duration, last_boost_time, clock,
                                   governor, lastPulse>>
             [] OTHER ->
                    /\ writes' = <<>>
                    /\ indexed' = {}
                    /\ UNCHANGED <<hvars, evars, lastPulse>>
        /\ UNCHANGED <<tvars, mvars, dvars>>

\* int get_feature(struct power_module *module, feature_t feature)
get_feature ==
    \E feature \in Features :
        /\ op' = Call("getFeature", feature,
                      IF feature = "SUPPORTED_PROFILES" THEN PROFILE_MAX
                      ELSE -1, None)
        /\ writes' = <<>>
        /\ indexed' = {}
        /\ callTick' = 1 - callTick
        /\ UNCHANGED <<hvars, evars, lastPulse>>
        /\ UNCHANGED <<tvars, mvars, dvars>>

\* Time passes: CLOCK_MONOTONIC moves to a later reading.
Tick ==
    /\ \E t \in Times : t # clock /\ Before(clock, t) /\ clock' = t
    /\ UNCHANGED <<governor, nodes, hvars, ovars>>
    /\ UNCHANGED <<tvars, mvars, dvars>>

\* The interactive governor is selected: its directory appears, with the
\* kernel's values in the nodes.
GovernorAppears ==
    /\ ~governor
    /\ governor' = TRUE
    /\ nodes' = [n \in Nodes |->
                   IF n \in InteractiveNodes THEN KernelDefault(n)
                   ELSE nodes[n]]
    /\ UNCHANGED <<clock, hvars, ovars>>
    /\ UNCHANGED <<tvars, mvars, dvars>>

\* Another governor is selected: the directory and its nodes disappear.
GovernorDisappears ==
    /\ governor
    /\ governor' = FALSE
    /\ nodes' = [n \in Nodes |->
                   IF n \in InteractiveNodes THEN Missing ELSE nodes[n]]
    /\ UNCHANGED <<clock, hvars, ovars>>
    /\ UNCHANGED <<tvars, mvars, dvars>>

\* A path with no file that cannot be created, and the record of no call.
NoFile == [exists |-> FALSE, canRead |-> FALSE, canWrite |-> FALSE,
           content |-> <<>>]
NoCall == [name |-> "none", mode |-> [kind |-> "null"], makeDefault |-> FALSE,
           ret |-> [kind |-> "void"], prev |-> "none"]

\* No profile write made yet.
NoWrite == [thread |-> 0, k |-> 0, profile |-> -1, by |-> {}]

\* The module as the loader maps it: the static initial values of power.c.
HalIdle ==
    /\ current_power_profile = -1
    /\ pulse_duration = 0
    /\ last_boost_time = Timespec(0, 0)

ObsIdle ==
    /\ op = [name |-> "none", hint |-> None, data |-> None, gov |-> None,
             again |-> FALSE]
    /\ writes = <<>>
    /\ indexed = {}
    /\ lastPulse = NoTime
    /\ callTick = 0

MTIdle ==
    /\ pc = <<>>
    /\ arg = <<>>
    /\ left = <<>>
    /\ lock = 0
    /\ lastw = NoWrite

DisplayIdle ==
    /\ loaded = FALSE
    /\ modeFile = NoFile
    /\ defaultFile = NoFile
    /\ dop = NoCall
    /\ dwrites = <<>>

EnvIdle ==
    /\ clock = Timespec(0, 0)
    /\ governor = FALSE
    /\ nodes = FreshNodes(FALSE)

Init ==
    /\ HalIdle
    /\ clock = Timespec(0, 0)
    /\ governor \in BOOLEAN
    /\ nodes = FreshNodes(governor)
    /\ ObsIdle
    /\ TimeIdle /\ MTIdle /\ DisplayIdle

Next ==
    \/ fugu_power_init
    \/ fugu_power_set_interactive
    \/ fugu_power_hint
    \/ get_feature
    \/ Tick
    \/ GovernorAppears
    \/ GovernorDisappears

Spec == Init /\ [][Next]_vars

-----------------------------------------------------------------------------
(* SpecTime.                                                               *)

\* The readings of SpecTime: those of the clock, one second more, and
\* tv_nsec values below and just under one microsecond.
TimesFine ==
    {Timespec(s, n) : s \in 0..(MaxSec + 1), n \in NsecGrid \cup {600, 999}}

InitTime ==
    /\ ts_a \in TimesFine
    /\ ts_b \in {b \in TimesFine : Before(b, ts_a)}
    /\ ts_res = NoTime
    /\ ts_us = NoUs
    /\ HalIdle /\ EnvIdle /\ ObsIdle /\ MTIdle /\ DisplayIdle

NextTime == TimeSub \/ TimeToUs

SpecTime == InitTime /\ [][NextTime]_vars

-----------------------------------------------------------------------------
(* SpecMT: threads issuing powerHint(SET_PROFILE). Every statement of the  *)
(* SET_PROFILE case and of set_power_profile is one step of its thread.    *)
(* The governor does not change while the calls run.                       *)

Threads == 1..NumThreads

At(t, l) == pc[t].at = l

Goto(t, l, k) == pc' = [pc EXCEPT ![t] = [at |-> l, k |-> k]]

\* Mutant: pthread_mutex_lock returns without waiting for the owner.
mutex_free_unchecked == TRUE

\* pthread_mutex_lock(&lock) returns once no thread owns the mutex.
mutex_free == lock = 0

\* powerHint(module, POWER_HINT_SET_PROFILE, data) is entered.
MTCall(t) ==
    /\ At(t, "idle")
    /\ left[t] > 0
    /\ \E data \in ProfileArgs : arg' = [arg EXCEPT ![t] = data]
    /\ left' = [left EXCEPT ![t] = @ - 1]
    /\ Goto(t, "lock", 0)
    /\ UNCHANGED <<lock, lastw, hvars, evars>>
    /\ UNCHANGED <<tvars, ovars, dvars>>

\* pthread_mutex_lock(&lock)
MTLock(t) ==
    /\ At(t, "lock")
    /\ mutex_free
    /\ lock' = t
    /\ Goto(t, "validate", 0)
    /\ UNCHANGED <<arg, left, lastw, hvars, evars>>
    /\ UNCHANGED <<tvars, ovars, dvars>>

\* if (!is_profile_valid(profile)) return;
MTValidate(t) ==
    /\ At(t, "validate")
    /\ Goto(t, IF is_profile_valid(arg[t]) THEN "compare" ELSE "unlock", 0)
    /\ UNCHANGED <<arg, left, lock, lastw, hvars, evars>>
    /\ UNCHANGED <<tvars, ovars, dvars>>

\* if (profile == current_power_profile) return;
MTCompare(t) ==
    /\ At(t, "compare")
    /\ Goto(t, IF profile_is_current(arg[t]) THEN "unlock" ELSE "governor", 0)
    /\ UNCHANGED <<arg, left, lock, lastw, hvars, evars>>
    /\ UNCHANGED <<tvars, ovars, dvars>>

\* if (!check_governor()) return;
MTGovernor(t) ==
    /\ At(t, "governor")
    /\ Goto(t, IF check_governor THEN "write" ELSE "unlock",
               IF check_governor THEN 1 ELSE 0)
    /\ UNCHANGED <<arg, left, lock, lastw, hvars, evars>>
    /\ UNCHANGED <<tvars, ovars, dvars>>

\* The k-th of the eight sysfs writes.
MTWrite(t) ==
    /\ At(t, "write")
    /\ \E prof \in ProfileRead(arg[t]) :
         LET k == pc[t].k
             w == ProfileWrites(prof)[k]
         IN  /\ nodes' = sysfs_write(nodes, w.path, w.s)
             /\ lastw' = [thread |-> t, k |-> k, profile |-> arg[t],
                          by |-> lastw.by \cup {t}]
             /\ IF k < Len(ProfileWrites(prof))
                THEN Goto(t, "write", k + 1)
                ELSE Goto(t, "assign", 0)
    /\ UNCHANGED <<arg, left, lock, hvars, clock, governor>>
    /\ UNCHANGED <<tvars, ovars, dvars>>

\* current_power_profile = profile;
MTAssign(t) ==
    /\ At(t, "assign")
    /\ current_power_profile' = arg[t]
    /\ Goto(t, "unlock", 0)
    /\ UNCHANGED <<arg, left, lock, lastw, pulse_duration, last_boost_time,
                   evars>>
    /\ UNCHANGED <<tvars, ovars, dvars>>

\* pthread_mutex_unlock(&lock), and the return of powerHint.
MTUnlock(t) ==
    /\ At(t, "unlock")
    /\ lock' = 0
    /\ Goto(t, "idle", 0)
    /\ UNCHANGED <<arg, left, lastw, hvars, evars>>
    /\ UNCHANGED <<tvars, ovars, dvars>>

InitMT ==
    /\ pc = [t \in Threads |-> [at |-> "idle", k |-> 0]]
    /\ arg = [t \in Threads |-> -1]
    /\ left = [t \in Threads |-> MaxCalls]
    /\ lock = 0
    /\ lastw = NoWrite
    /\ HalIdle
    /\ clock = Timespec(0, 0)
    /\ governor \in BOOLEAN
    /\ nodes = FreshNodes(governor)
    /\ ObsIdle /\ TimeIdle /\ DisplayIdle

NextMT ==
    \/ \E t \in Threads : MTCall(t)
    \/ \E t \in Threads : MTLock(t)
    \/ \E t \in Threads : MTValidate(t)
    \/ \E t \in Threads : MTCompare(t)
    \/ \E t \in Threads : MTGovernor(t)
    \/ \E t \in Threads : MTWrite(t)
    \/ \E t \in Threads : MTAssign(t)
    \/ \E t \in Threads : MTUnlock(t)

SpecMT == InitMT /\ [][NextMT]_vars

-----------------------------------------------------------------------------
(* The display mode control (DisplayModeControl.java).                     *)
(*                                                                         *)
(* A file is a record: whether it exists, whether the process may read and *)
(* write its path (writing a path that does not exist creates the file),   *)
(* and its content. A DisplayMode reference is [kind |-> "null"] or        *)
(* [kind |-> "mode", id, name]; a call that lets an exception escape       *)
(* returns [kind |-> "throw", ex].                                         *)

MODE_PATH == "/sys/class/mdnie/mdnie/mode"
DEFAULT_PATH == "/data/misc/.displaymodedefault"

DisplayMode(id, name) == [kind |-> "mode", id |-> id, name |-> name]
Null == [kind |-> "null"]
Throw(ex) == [kind |-> "throw", ex |-> ex]
Bool(b) == [kind |-> "boolean", b |-> b]

DISPLAY_MODES ==
    <<DisplayMode(0, "Dynamic"), DisplayMode(1, "Standard"),
      DisplayMode(2, "Cinema"), DisplayMode(3, "Auto")>>

\* The null String reference (no text: text is made of one-character
\* strings).
NullString == <<"null">>

isFileReadable(f) == f.exists /\ f.canRead
isFileWritable(f) == f.exists /\ f.canWrite

\* The text before the first line terminator of s.
RECURSIVE UpToNewline(_)
UpToNewline(s) ==
    IF s = <<>> \/ Head(s) \in {"\n", "\r"} THEN <<>>
    ELSE <<Head(s)>> \o UpToNewline(Tail(s))

\* FileUtils.readOneLine(fileName): the first line of the file, or null when
\* the file cannot be read or holds nothing (BufferedReader.readLine gives
\* null at the end of the stream).
readOneLine(f) ==
    IF ~isFileReadable(f) \/ f.content = <<>> THEN NullString
    ELSE UpToNewline(f.content)

\* FileUtils.writeLine(fileName, value): the value becomes the content of
\* the file; false when the path cannot be written.
writeLine(f, value) ==
    IF f.canWrite
    THEN [ok |-> TRUE, file |-> [f EXCEPT !.exists = TRUE, !.content = value]]
    ELSE [ok |-> FALSE, file |-> f]

AllDigits(s) == \A i \in 1..Len(s) : IsDigit(s[i])

\* Integer.parseInt(s): an optional sign and then digits only, at least one;
\* anything else, null included, is a NumberFormatException. (The texts of
\* the model are short of the 32-bit range.)
parseInt(s) ==
    IF s = NullString \/ s = <<>> THEN [ok |-> FALSE, val |-> 0]
    ELSE LET signed == Head(s) \in {"-", "+"}
             digits == IF signed THEN Tail(s) ELSE s
         IN  IF digits = <<>> \/ ~AllDigits(digits)
             THEN [ok |-> FALSE, val |-> 0]
             ELSE [ok |-> TRUE,
                   val |-> IF Head(s) = "-" THEN -DigitRun(digits, 0)
                           ELSE DigitRun(digits, 0)]

\* Mutant: the catch clause names NumberFormatException alone.
Caught_NumberFormatOnly(ex) == ex = "NumberFormatException"

\* catch (NumberFormatException | ArrayIndexOutOfBoundsException e)
Caught(ex) ==
    ex \in {"NumberFormatException", "ArrayIndexOutOfBoundsException"}

\* The body shared by getCurrentMode() and getDefaultMode():
\*   try { int mode = Integer.parseInt(FileUtils.readOneLine(path));
\*         return DISPLAY_MODES[mode]; } catch (...) { return null; }
modeFromFile(f) ==
    LET r == parseInt(readOneLine(f))
        ex == IF ~r.ok THEN "NumberFormatException"
              ELSE IF r.val < 0 \/ r.val >= Len(DISPLAY_MODES)
                   THEN "ArrayIndexOutOfBoundsException"
                   ELSE "none"
    IN  IF ex = "none" THEN DISPLAY_MODES[r.val + 1]
        ELSE IF Caught(ex) THEN Null
        ELSE Throw(ex)

\* Mutant: the index of the mode in the table, counted from 1, is written.
modeText_from_one(mode) == IntStr(mode.id + 1)

\* String.valueOf(mode.id)
modeText(mode) == IntStr(mode.id)

FileWrite(path, value, ok) == [path |-> path, s |-> value, ok |-> ok]

\* setMode(mode, makeDefault) on the files mf (MODE_PATH) and df
\* (DEFAULT_PATH): the files afterwards, the writes attempted, the result.
setMode(mf, df, mode, makeDefault) ==
    IF mode.kind # "mode"
    THEN [mf |-> mf, df |-> df, writes |-> <<>>, ret |-> Bool(FALSE)]
    ELSE LET w1 == writeLine(mf, modeText(mode))
             w2 == writeLine(df, modeText(mode))
         IN  IF w1.ok /\ makeDefault
             THEN [mf |-> w1.file, df |-> w2.file,
                   writes |-> <<FileWrite(MODE_PATH, modeText(mode), w1.ok),
                                FileWrite(DEFAULT_PATH, modeText(mode), w2.ok)>>,
                   ret |-> Bool(w2.ok)]
             ELSE [mf |-> w1.file, df |-> df,
                   writes |-> <<FileWrite(MODE_PATH, modeText(mode), w1.ok)>>,
                   ret |-> Bool(w1.ok)]

\* Mutant: the persisted default is applied with makeDefault set.
clinit_call_always_default(mf, df) ==
    IF isFileReadable(df)
    THEN [call |-> TRUE, mode |-> modeFromFile(df), makeDefault |-> TRUE]
    ELSE IF isFileReadable(mf)
    THEN [call |-> TRUE, mode |-> modeFromFile(mf), makeDefault |-> TRUE]
    ELSE [call |-> FALSE, mode |-> Null, makeDefault |-> FALSE]

\* The setMode call the static initializer makes, if any.
clinit_call(mf, df) ==
    IF isFileReadable(df)
    THEN [call |-> TRUE, mode |-> modeFromFile(df), makeDefault |-> FALSE]
    ELSE IF isFileReadable(mf)
    THEN [call |-> TRUE, mode |-> modeFromFile(mf), makeDefault |-> TRUE]
    ELSE [call |-> FALSE, mode |-> Null, makeDefault |-> FALSE]

DCall(name, mode, makeDefault, ret) ==
    [name |-> name, mode |-> mode, makeDefault |-> makeDefault, ret |-> ret,
     prev |-> dop.name]

\* static { ... }: runs once, when the class is loaded.
clinit ==
    /\ ~loaded
    /\ loaded' = TRUE
    /\ LET c == clinit_call(modeFile, defaultFile)
           r == setMode(modeFile, defaultFile, c.mode, c.makeDefault)
       IN  IF c.call /\ c.mode.kind # "throw"
           THEN /\ modeFile' = r.mf
                /\ defaultFile' = r.df
                /\ dwrites' = r.writes
                /\ dop' = DCall("clinit", c.mode, c.makeDefault, r.ret)
           ELSE /\ UNCHANGED <<modeFile, defaultFile>>
                /\ dwrites' = <<>>
                /\ dop' = DCall("clinit", c.mode, c.makeDefault,
                                [kind |-> "void"])
    /\ UNCHANGED <<tvars, hvars, evars, ovars, mvars>>

isSupported ==
    /\ loaded
    /\ dop' = DCall("isSupported", Null, FALSE,
                    Bool(isFileWritable(modeFile) /\ isFileReadable(modeFile)
                         /\ isFileWritable(defaultFile)
                         /\ isFileReadable(defaultFile)))
    /\ dwrites' = <<>>
    /\ UNCHANGED <<loaded, modeFile, defaultFile>>
    /\ UNCHANGED <<tvars, hvars, evars, ovars, mvars>>

getAvailableModes ==
    /\ loaded
    /\ dop' = DCall("getAvailableModes", Null, FALSE,
                    [kind |-> "modes", modes |-> DISPLAY_MODES])
    /\ dwrites' = <<>>
    /\ UNCHANGED <<loaded, modeFile, defaultFile>>
    /\ UNCHANGED <<tvars, hvars, evars, ovars, mvars>>

getCurrentMode ==
    /\ loaded
    /\ dop' = DCall("getCurrentMode", Null, FALSE, modeFromFile(modeFile))
    /\ dwrites' = <<>>
    /\ UNCHANGED <<loaded, modeFile, defaultFile>>
    /\ UNCHANGED <<tvars, hvars, evars, ovars, mvars>>

getDefaultMode ==
    /\ loaded
    /\ dop' = DCall("getDefaultMode", Null, FALSE, modeFromFile(defaultFile))
    /\ dwrites' = <<>>
    /\ UNCHANGED <<loaded, modeFile, defaultFile>>
    /\ UNCHANGED <<tvars, hvars, evars, ovars, mvars>>

\* The DisplayMode references a caller may hand to setMode: null, the
\* entries of the table, and modes of its own making with any id.
ModeArgs ==
    {Null} \cup {DISPLAY_MODES[i] : i \in 1..Len(DISPLAY_MODES)}
           \cup {DisplayMode(id, "Custom") : id \in (-1)..MaxModeId}

setModeCall ==
    /\ loaded
    /\ \E mode \in ModeArgs, makeDefault \in BOOLEAN :
         LET r == setMode(modeFile, defaultFile, mode, makeDefault)
         IN  /\ modeFile' = r.mf
             /\ defaultFile' = r.df
             /\ dwrites' = r.writes
             /\ dop' = DCall("setMode", mode, makeDefault, r.ret)
    /\ UNCHANGED loaded
    /\ UNCHANGED <<tvars, hvars, evars, ovars, mvars>>

\* What a file may hold before the class is loaded, and what the display
\* driver may put in the mode file at any time.
FileTexts ==
    {<<>>, <<"0">>, <<"3", "\n">>, <<"4">>, <<"1", "2">>, <<"-", "1">>,
     <<"+", "2">>, <<"-">>, <<"1", "x">>, <<"A", "u", "t", "o", "\n">>}

\* The driver changes the mode by itself.
DriverSetsMode ==
    /\ modeFile.exists
    /\ \E text \in FileTexts : modeFile' = [modeFile EXCEPT !.content = text]
    /\ modeFile' # modeFile
    /\ dop' = DCall("driver", Null, FALSE, [kind |-> "void"])
    /\ dwrites' = <<>>
    /\ UNCHANGED <<loaded, defaultFile>>
    /\ UNCHANGED <<tvars, hvars, evars, ovars, mvars>>

\* The files a device may start with. A sysfs node that does not exist
\* cannot be created; the default file can, where /data/misc is writable.
InitDisplay ==
    /\ loaded = FALSE
    /\ modeFile \in
          {NoFile} \cup
          {[exists |-> TRUE, canRead |-> r, canWrite |-> w, content |-> text] :
              r \in BOOLEAN, w \in BOOLEAN, text \in FileTexts}
    /\ defaultFile \in
          {NoFile, [NoFile EXCEPT !.canRead = TRUE, !.canWrite = TRUE]} \cup
          {[exists |-> TRUE, canRead |-> TRUE, canWrite |-> w,
            content |-> text] :
              w \in BOOLEAN, text \in {<<>>, <<"2">>, <<"7">>, <<"x">>}}
    /\ dop = NoCall
    /\ dwrites = <<>>
    /\ HalIdle /\ EnvIdle /\ ObsIdle /\ TimeIdle /\ MTIdle

NextDisplay ==
    \/ clinit
    \/ isSupported
    \/ getAvailableModes
    \/ getCurrentMode
    \/ setModeCall
    \/ getDefaultMode
    \/ DriverSetsMode

SpecDisplay == InitDisplay /\ [][NextDisplay]_vars

-----------------------------------------------------------------------------
(* Claims about the timestamp arithmetic (SpecTime).                       *)

\* The time from last to now in whole microseconds, rounded down.
ElapsedUs(now, last) ==
    (now.tv_sec - last.tv_sec) * USEC_PER_SEC
        + ((now.tv_nsec - last.tv_nsec) \div NSEC_PER_USEC)

\* TRUE iff the time from last to now is more than d microseconds.
ElapsedExceeds(now, last, d) ==
    \/ ElapsedUs(now, last) > d
    \/ /\ ElapsedUs(now, last) = d
       /\ (now.tv_nsec - last.tv_nsec) % NSEC_PER_USEC > 0

\* C10: for normalized readings last <= now, the diff computed by
\* timespec_sub and timespec_to_us is the elapsed time now - last in whole
\* microseconds, rounded down, also when now.tv_nsec < last.tv_nsec.
C10_DiffIsElapsedMicroseconds ==
    ts_us # NoUs => ts_us = ElapsedUs(ts_a, ts_b)

-----------------------------------------------------------------------------
(* Claims about the power HAL called by one thread (Spec).                 *)

\* The step is a HAL call (and not the environment moving).
CallStep == callTick' # callTick

ValidIds == 0..(PROFILE_MAX - 1)

IsHint(c, hint) == c.name = "powerHint" /\ c.hint = hint

\* The preconditions C1 names, for the call c made with the profile cur:
\* an INTERACTION hint, a valid profile with a boost pulse, the governor
\* present.
EligibleInteraction(c, cur) ==
    /\ IsHint(c, "INTERACTION")
    /\ c.gov = TRUE
    /\ cur \in ValidIds
    /\ profiles[cur + 1].boostpulse_duration # 0

Pulses(ws) == Cardinality({i \in 1..Len(ws) : ws[i] = PulseWrite})

\* C1 as stated: two successive eligible INTERACTION calls that both fall
\* within one pulse-duration window (the window that starts at
\* last_boost_time, with the non-zero pulse_duration init has read) write
\* "1" to the boost-pulse node exactly once.
C1_ExactlyOnePulsePerWindow ==
    [][(/\ CallStep
        /\ pulse_duration > 0
        /\ EligibleInteraction(op, current_power_profile)
        /\ EligibleInteraction(op', current_power_profile)
        /\ ~ElapsedExceeds(clock, last_boost_time, pulse_duration))
       => Pulses(writes) + Pulses(writes') = 1]_vars

\* C1 as amended: calls within one pulse-duration window write "1" to the
\* boost-pulse node at most once: a pulse is written only more than
\* pulse_duration after the pulse before it, and an eligible INTERACTION
\* call made no more than pulse_duration after last_boost_time (the last
\* pulse, or init) writes nothing.
C1_AtMostOnePulsePerWindow ==
    [][CallStep =>
        /\ (Pulses(writes') > 0 /\ lastPulse # NoTime)
              => ElapsedExceeds(clock, lastPulse, pulse_duration)
        /\ Pulses(writes') <= 1
        /\ (/\ EligibleInteraction(op', current_power_profile)
            /\ ~ElapsedExceeds(clock, last_boost_time, pulse_duration))
              => writes' = <<>>]_vars

\* A repeated eligible INTERACTION call inside the window of the last pulse
\* has been dropped.
C1_Witness ==
    /\ EligibleInteraction(op, current_power_profile)
    /\ op.again
    /\ lastPulse # NoTime
    /\ ~ElapsedExceeds(clock, lastPulse, pulse_duration)
    /\ writes = <<>>

\* C2: a boost hint writes the boost-pulse node only if the profile is
\* valid, its boostpulse_duration is non-zero, the governor directory exists
\* and more than pulse_duration has passed since last_boost_time; otherwise
\* it writes nothing and leaves last_boost_time alone; last_boost_time
\* becomes the current time exactly in the calls that attempt the write.
C2_PulseOnlyWhenDue ==
    [][(CallStep /\ op'.name = "powerHint" /\ op'.hint \in BoostHints) =>
        /\ writes' \in {<<>>, <<PulseWrite>>}
        /\ writes' = <<PulseWrite>> =>
              /\ current_power_profile \in ValidIds
              /\ profiles[current_power_profile + 1].boostpulse_duration # 0
              /\ governor
              /\ ElapsedExceeds(clock, last_boost_time, pulse_duration)
              /\ last_boost_time' = clock
        /\ writes' = <<>> => last_boost_time' = last_boost_time
        /\ nodes' = nodes]_vars

\* A boost hint has written the pulse.
C2_Witness ==
    /\ op.name = "powerHint"
    /\ op.hint \in BoostHints
    /\ writes = <<PulseWrite>>
    /\ last_boost_time = clock

\* C3 as stated: of two successive set_power_profile(p) calls with a valid
\* p, the second performs no write and leaves current_power_profile
\* unchanged, and the profile writes are made at most once.
C3_SecondCallWritesNothing ==
    [][(/\ CallStep
        /\ IsHint(op, "SET_PROFILE") /\ IsHint(op', "SET_PROFILE")
        /\ op.data \in ValidIds
        /\ op'.data = op.data)
       => /\ writes' = <<>>
          /\ current_power_profile' = current_power_profile
          /\ nodes' = nodes
          /\ Len(writes) \in {0, Len(ProfileWrites(profiles[1]))}]_vars

\* C3 as amended: the same, for a first call made while the interactive
\* governor directory exists.
C3_SecondCallWritesNothingAfterApplied ==
    [][(/\ CallStep
        /\ IsHint(op, "SET_PROFILE") /\ IsHint(op', "SET_PROFILE")
        /\ op.data \in ValidIds
        /\ op'.data = op.data
        /\ op.gov = TRUE)
       => /\ writes' = <<>>
          /\ current_power_profile' = current_power_profile
          /\ nodes' = nodes
          /\ Len(writes) \in {0, Len(ProfileWrites(profiles[1]))}]_vars

\* A second set_power_profile(p) in a row has found p current, with the
\* governor present, and has written nothing.
C3_Witness ==
    /\ IsHint(op, "SET_PROFILE")
    /\ op.again
    /\ op.gov = TRUE
    /\ op.data \in ValidIds
    /\ current_power_profile = op.data
    /\ writes = <<>>

\* C8: current_power_profile is -1 or a valid id, profiles[] is only
\* indexed with a valid id, and a SET_PROFILE hint with an out-of-range id
\* writes nothing and leaves current_power_profile unchanged.
C8_ProfileIdsValidated ==
    /\ [](/\ current_power_profile \in {-1} \cup ValidIds
          /\ indexed \subseteq ValidIds)
    /\ [][(CallStep /\ IsHint(op', "SET_PROFILE")
            /\ op'.data \notin ValidIds)
           => /\ writes' = <<>>
              /\ nodes' = nodes
              /\ current_power_profile' = current_power_profile]_vars

\* An out-of-range SET_PROFILE has been made with a profile selected and the
\* governor present.
C8_Witness ==
    /\ IsHint(op, "SET_PROFILE")
    /\ op.data \notin ValidIds
    /\ op.gov = TRUE
    /\ current_power_profile \in ValidIds
    /\ writes = <<>>

\* The numbers the boostpulse_duration node can show in the model.
ShownDurations ==
    {80000} \cup {profiles[k].boostpulse_duration : k \in 1..PROFILE_MAX}

\* C9: pulse_duration is set only by init, to the integer the
\* boostpulse_duration node shows or to 20000 when the node cannot be read;
\* no powerHint call changes it, whatever it writes to the node.
C9_PulseDurationSetOnlyByInit ==
    [][/\ pulse_duration' # pulse_duration => (CallStep /\ op'.name = "init")
       /\ (CallStep /\ op'.name = "init") =>
            IF nodes[BOOST_DURATION_SYSFS] = Missing
            THEN pulse_duration' = DEFAULT_PULSE_DURATION
            ELSE \E n \in ShownDurations :
                    /\ nodes[BOOST_DURATION_SYSFS]
                          \in {IntStr(n), IntStr(n) \o <<"\n">>}
                    /\ pulse_duration' = n]_vars

\* A boost hint has been handled while the node showed the duration
\* SET_PROFILE wrote and pulse_duration still held another value.
C9_Witness ==
    /\ op.name = "powerHint"
    /\ op.hint \in BoostHints
    /\ current_power_profile \in ValidIds
    /\ nodes[BOOST_DURATION_SYSFS] =
          IntStr(profiles[current_power_profile + 1].boostpulse_duration)
    /\ pulse_duration # profiles[current_power_profile + 1].boostpulse_duration
    /\ pulse_duration # 0
    /\ writes = <<PulseWrite>>

-----------------------------------------------------------------------------
(* Claims about concurrent SET_PROFILE hints (SpecMT).                     *)

\* The thread is between its first profile write and the assignment of
\* current_power_profile.
Applying(t) == pc[t].at \in {"write", "assign"}

AllReturned == \A t \in Threads : pc[t].at = "idle" /\ left[t] = 0

-----------------------------------------------------------------------------
(* Claims about the display mode control (SpecDisplay).                    *)

TableIds == 0..(Len(DISPLAY_MODES) - 1)

\* The last call attempted at least one write and every write succeeded.
WritesSucceeded ==
    /\ dwrites # <<>>
    /\ \A i \in 1..Len(dwrites) : dwrites[i].ok

\* The mode is the entry of the table with this id.
IsTableEntry(mode, id) ==
    /\ mode.kind = "mode"
    /\ mode.id = id
    /\ \E i \in 1..Len(DISPLAY_MODES) : DISPLAY_MODES[i] = mode

\* C5 as stated: where the writes succeed (and the mode file can be read
\* back), getCurrentMode() called right after setMode(m, makeDefault), for
\* any DisplayMode m, returns the table entry whose id is m.id.
C5_SetThenGetAnyMode ==
    [][(/\ dop.name = "setMode"
        /\ dop.mode.kind = "mode"
        /\ WritesSucceeded
        /\ isFileReadable(modeFile)
        /\ dop'.name = "getCurrentMode")
       => IsTableEntry(dop'.ret, dop.mode.id)]_vars

\* C5 as amended: the same for any DisplayMode m whose id is in 0..3.
C5_SetThenGetTableMode ==
    [][(/\ dop.name = "setMode"
        /\ dop.mode.kind = "mode"
        /\ dop.mode.id \in TableIds
        /\ WritesSucceeded
        /\ isFileReadable(modeFile)
        /\ dop'.name = "getCurrentMode")
       => IsTableEntry(dop'.ret, dop.mode.id)]_vars

\* getCurrentMode() has returned the table entry of the id that the setMode
\* right before it wrote to the mode file.
C5_Witness ==
    /\ dop.name = "getCurrentMode"
    /\ dop.prev = "setMode"
    /\ dop.ret.kind = "mode"
    /\ modeFile.content = IntStr(dop.ret.id)

WritesTo(ws, path) == {i \in 1..Len(ws) : ws[i].path = path}

\* The step is the run of the static initializer.
ClinitStep == ~loaded /\ loaded'

\* What C6 says of the first branch and of the case of no valid mode: with
\* the default file readable, its mode is written to the mode file and the
\* default file is not written; when the file read yields no valid mode,
\* or when neither file is readable, nothing is written.
ClinitCommon ==
    /\ isFileReadable(defaultFile) =>
         /\ WritesTo(dwrites', DEFAULT_PATH) = {}
         /\ defaultFile' = defaultFile
         /\ IF modeFromFile(defaultFile).kind = "mode"
            THEN /\ Len(dwrites') = 1
                 /\ dwrites'[1].path = MODE_PATH
                 /\ dwrites'[1].s = IntStr(modeFromFile(defaultFile).id)
            ELSE dwrites' = <<>>
    /\ (/\ ~isFileReadable(defaultFile)
        /\ isFileReadable(modeFile)
        /\ modeFromFile(modeFile).kind # "mode") => dwrites' = <<>>
    /\ (~isFileReadable(defaultFile) /\ ~isFileReadable(modeFile)) =>
         dwrites' = <<>>

NonNumeric(text) ==
    \/ text \in {<<>>, <<"-">>, <<"+">>}
    \/ \E i \in 1..Len(text) :
          ~IsDigit(text[i]) /\ text[i] \notin {"-", "+", "\n"}

Shows(text, n) == text \in {IntStr(n), IntStr(n) \o <<"\n">>}

\* The numbers the files of the model may show.
ShownNumbers == (-20)..20

\* What C7 says of a read of the file f that returned ret.
ReadsAsClaimed(f, ret) ==
    /\ ret.kind # "throw"
    /\ isFileReadable(f) =>
         /\ \A n \in TableIds :
               Shows(f.content, n) => ret = DISPLAY_MODES[n + 1]
         /\ \A n \in ShownNumbers \ TableIds :
               Shows(f.content, n) => ret = Null
         /\ NonNumeric(f.content) => ret = Null

\* C7: getCurrentMode() and getDefaultMode() return null, and do not throw,
\* when the file holds no number or a number outside 0..3 (negative ones
\* included), and the table entry with that id when it holds "0".."3".
C7_ModeFromFile ==
    /\ dop.name = "getCurrentMode" => ReadsAsClaimed(modeFile, dop.ret)
    /\ dop.name = "getDefaultMode" => ReadsAsClaimed(defaultFile, dop.ret)

\* getCurrentMode() has read a negative number and returned null.
C7_Witness ==
    /\ dop.name = "getCurrentMode"
    /\ isFileReadable(modeFile)
    /\ modeFile.content = IntStr(-1)
    /\ dop.ret = Null

====
